---- MODULE Spec2Model ----
(***************************************************************************)
(* The atomic bridge of zabit11/movement: the in-memory reference          *)
(* contracts (SmartContractInitiator, SmartContractCounterparty) with the  *)
(* accounts ledger, the chain clients (EthClient, MovementClient), and the  *)
(* initiator events of the monitoring stream.                              *)
(***************************************************************************)
EXTENDS Integers, Sequences, FiniteSets, TLC

(***************************************************************************)
(* Bounds of the model.                                                    *)
(***************************************************************************)

\* Number of distinct BridgeTransferId values the model draws from.
MaxTransfers == 2

\* Width in bits of Amount in the model (u64 in the source: the wrap-around
\* arithmetic is kept, at a width the checker can enumerate).
AmountBits == 2

\* Number of transfers the on-chain initiator contract holds in the model.
MaxChainTransfers == 1

\* Last tick of the chain clock.
MaxTime == 2

\* Config.num_tx_send_retries, the retry budget of send_transaction.
num_tx_send_retries == 2

\* Number of events polled from the initiator monitoring stream.
MaxEvents == 2

(***************************************************************************)
(* Program constants.                                                      *)
(***************************************************************************)

\* type EthHash = [u8; 32]; a storage word and a recipient are as long.
EthHashLen == 32

\* The bytes of an Ethereum address.
EthAddressLen == 20

(***************************************************************************)
(* Domain types (bridge_shared::types).                                    *)
(***************************************************************************)

TransferIds == 1..MaxTransfers

AmountModulus == 2 ^ AmountBits

MaxAmount == AmountModulus - 1

\* HashLockPreImage values (secrets); their hashes are "hash1" and "hash2".
Secrets == {"secret1", "secret2"}

\* The hash of a pre-image (the calculate_hash of the commented-out check).
calculate_hash(secret) == IF secret = "secret1" THEN "hash1" ELSE "hash2"

\* The argument lists initiate_bridge_transfer is called with:
\* <<initiator, recipient, amount, time_lock, hash_lock>>.
InitiateArgs ==
  { <<"alice", "bob", 1, 10, "hash1">>,
    <<"alice", "bob", MaxAmount, 100, "hash2">>,
    <<"bob", "alice", 1, 100, "hash1">>,
    <<"bob", "alice", MaxAmount, 10, "hash2">> }

\* The argument lists lock_bridge_transfer is called with, after the id:
\* <<hash_lock, time_lock, recipient, amount>>.
LockArgs ==
  {"hash1", "hash2"} \X {10, 100} \X {"alice", "bob"} \X {1, MaxAmount}

EmptyMap == [x \in {} |-> 0]

\* HashMap::insert: adds the key, or replaces the value the key had.
MapInsert(m, k, v) == [x \in (DOMAIN m) \cup {k} |-> IF x = k THEN v ELSE m[x]]

VARIABLES
  initiated_transfers,  \* SmartContractInitiator.initiated_transfers
  generated,            \* the ids gen_unique_hash has produced so far
  accounts,             \* the ledger handed to complete_bridge_transfer
  locked_transfers,     \* SmartContractCounterparty.locked_transfers
  lastCall,             \* the last call made, its arguments and its result
  completed,            \* history: the ids a complete_bridge_transfer returned Ok for
  chain_transfers,      \* the transfers the on-chain AtomicBridgeInitiator holds
  now,                  \* the clock of the initiator chain
  clientCall,           \* the last chain-client call, what it submitted and returned
  stream                \* the initiator events polled so far, each with the id it resolved to

vars == <<initiated_transfers, generated, accounts, locked_transfers, lastCall,
          completed, chain_transfers, now, clientCall, stream>>

clientVars == <<chain_transfers, now, clientCall>>

contractVars == <<initiated_transfers, generated, accounts, locked_transfers,
                  lastCall, completed>>

monitorVars == <<stream>>

\* What HashMap::insert returns, as far as the model tells it: "none" when the
\* key had no value, "same" when it had an equal one, "other" otherwise.
MapInsertReturn(m, k, v) ==
  IF k \notin DOMAIN m THEN "none" ELSE IF m[k] = v THEN "same" ELSE "other"

\* args are the arguments of an initiate or a lock; replaced is what the
\* HashMap::insert of the call found under the key.
NoCall ==
  [op |-> "none", transfer_id |-> 0, secret |-> "", result |-> "none",
   args |-> << >>, replaced |-> "none"]

(***************************************************************************)
(* SmartContractInitiator.                                                 *)
(***************************************************************************)

\* GenUniqueHash::gen_unique_hash: the ids it may return next.
gen_unique_hash(made) == TransferIds \ made

BridgeTransferDetails(id, initiator, recipient, hash_lock, time_lock, amount) ==
  [bridge_transfer_id |-> id, initiator_address |-> initiator,
   recipient_address |-> recipient, hash_lock |-> hash_lock,
   time_lock |-> time_lock, amount |-> amount]

\* A variant of initiate_bridge_transfer that starts a new map for the record
\* instead of inserting into the one it has.
initiate_bridge_transfer_fresh_map(transfers, id, initiator, recipient, amount, time_lock, hash_lock) ==
  MapInsert(EmptyMap, id,
            BridgeTransferDetails(id, initiator, recipient, hash_lock, time_lock, amount))

\* A variant of initiate_bridge_transfer that calls gen_unique_hash a second
\* time for the bridge_transfer_id field of the record.
initiate_bridge_transfer_second_hash(transfers, id, initiator, recipient, amount, time_lock, hash_lock) ==
  MapInsert(transfers, id,
            BridgeTransferDetails(CHOOSE other \in TransferIds : other # id,
                                  initiator, recipient, hash_lock, time_lock, amount))

\* A variant of initiate_bridge_transfer that fills initiator_address with
\* the recipient and recipient_address with the initiator.
initiate_bridge_transfer_swapped_addresses(transfers, id, initiator, recipient, amount, time_lock, hash_lock) ==
  MapInsert(transfers, id,
            BridgeTransferDetails(id, recipient, initiator, hash_lock, time_lock, amount))

\* initiate_bridge_transfer, given the id gen_unique_hash returned.
initiate_bridge_transfer(transfers, id, initiator, recipient, amount, time_lock, hash_lock) ==
  MapInsert(transfers, id,
            BridgeTransferDetails(id, initiator, recipient, hash_lock, time_lock, amount))

\* accounts.entry(addr).or_insert(Amount(0))
or_insert_zero(accts, addr) ==
  IF addr \in DOMAIN accts THEN accts ELSE MapInsert(accts, addr, 0)

\* **balance += amount on u64: without overflow checks the sum wraps.
wrapping_add(balance, amount) == (balance + amount) % AmountModulus

\* Whether balance + amount leaves the range of the type.
overflows(balance, amount) == balance + amount > MaxAmount

\* A variant of complete_bridge_transfer that credits when the record is
\* there (if let Some(transfer)) and returns Ok(()) either way.
complete_bridge_transfer_if_let(transfers, accts, transfer_id, secret, overflow_checks) ==
  IF transfer_id \notin DOMAIN transfers
  THEN [result |-> "Ok", accounts |-> accts, transfers |-> transfers]
  ELSE LET transfer == transfers[transfer_id]
           entered  == or_insert_zero(accts, transfer.recipient_address)
           balance  == entered[transfer.recipient_address]
       IN  IF overflows(balance, transfer.amount) /\ overflow_checks
           THEN [result |-> "panic", accounts |-> entered, transfers |-> transfers]
           ELSE [result |-> "Ok", transfers |-> transfers,
                 accounts |-> [entered EXCEPT ![transfer.recipient_address] =
                                 wrapping_add(balance, transfer.amount)]]

\* The map without the key (HashMap::remove).
MapRemove(m, k) == [x \in (DOMAIN m) \ {k} |-> m[x]]

\* A variant of complete_bridge_transfer that takes the record out of the map
\* (remove(&transfer_id)) instead of borrowing it.
complete_bridge_transfer_remove(transfers, accts, transfer_id, secret, overflow_checks) ==
  IF transfer_id \notin DOMAIN transfers
  THEN [result |-> "TransferNotFound", accounts |-> accts, transfers |-> transfers]
  ELSE LET transfer == transfers[transfer_id]
           entered  == or_insert_zero(accts, transfer.recipient_address)
           balance  == entered[transfer.recipient_address]
       IN  IF overflows(balance, transfer.amount) /\ overflow_checks
           THEN [result |-> "panic", accounts |-> entered,
                 transfers |-> MapRemove(transfers, transfer_id)]
           ELSE [result |-> "Ok", transfers |-> MapRemove(transfers, transfer_id),
                 accounts |-> [entered EXCEPT ![transfer.recipient_address] =
                                 wrapping_add(balance, transfer.amount)]]

\* complete_bridge_transfer: the result, and the ledger and the records it
\* leaves.  The pre-image check of the source is commented out, so secret is
\* not read.  overflow_checks says whether the build panics on arithmetic
\* overflow.
complete_bridge_transfer(transfers, accts, transfer_id, secret, overflow_checks) ==
  IF transfer_id \notin DOMAIN transfers
  THEN [result |-> "TransferNotFound", accounts |-> accts, transfers |-> transfers]
  ELSE LET transfer == transfers[transfer_id]
           entered  == or_insert_zero(accts, transfer.recipient_address)
           balance  == entered[transfer.recipient_address]
       IN  IF overflows(balance, transfer.amount) /\ overflow_checks
           THEN [result |-> "panic", accounts |-> entered, transfers |-> transfers]
           ELSE [result |-> "Ok", transfers |-> transfers,
                 accounts |-> [entered EXCEPT ![transfer.recipient_address] =
                                 wrapping_add(balance, transfer.amount)]]

Running == lastCall.result # "panic"

InitiateBridgeTransfer ==
  /\ Running
  /\ \E id \in gen_unique_hash(generated), a \in InitiateArgs :
       /\ initiated_transfers' =
            initiate_bridge_transfer(initiated_transfers, id, a[1], a[2], a[3], a[4], a[5])
       /\ generated' = generated \cup {id}
       /\ lastCall' = [op |-> "initiate", transfer_id |-> id, secret |-> "",
                       result |-> "Ok", args |-> a,
                       replaced |->
                         MapInsertReturn(initiated_transfers, id,
                           BridgeTransferDetails(id, a[1], a[2], a[5], a[4], a[3]))]
  /\ UNCHANGED <<accounts, locked_transfers, completed, clientVars, monitorVars>>

CompleteBridgeTransfer ==
  /\ Running
  /\ \E transfer_id \in TransferIds, secret \in Secrets, overflow_checks \in BOOLEAN :
       LET r == complete_bridge_transfer(initiated_transfers, accounts, transfer_id,
                                         secret, overflow_checks)
       IN  /\ accounts' = r.accounts
           /\ initiated_transfers' = r.transfers
           /\ lastCall' = [op |-> "complete", transfer_id |-> transfer_id,
                           secret |-> secret, result |-> r.result,
                           args |-> << >>, replaced |-> "none"]
           /\ completed' = IF r.result = "Ok" THEN completed \cup {transfer_id}
                                              ELSE completed
  /\ UNCHANGED <<generated, locked_transfers, clientVars, monitorVars>>

(***************************************************************************)
(* SmartContractCounterparty.                                              *)
(***************************************************************************)

LockDetails(id, recipient, hash_lock, time_lock, amount) ==
  [bridge_transfer_id |-> id, recipient_address |-> recipient,
   hash_lock |-> hash_lock, time_lock |-> time_lock, amount |-> amount]

\* A variant of lock_bridge_transfer that assigns a new map holding the one
\* record instead of inserting into locked_transfers.
lock_bridge_transfer_fresh_map(locked, bridge_transfer_id, hash_lock, time_lock, recipient_address, amount) ==
  MapInsert(EmptyMap, bridge_transfer_id,
            LockDetails(bridge_transfer_id, recipient_address, hash_lock, time_lock, amount))

\* A variant of lock_bridge_transfer that keeps the record an id already has
\* (entry(id).or_insert(..)).
lock_bridge_transfer_or_insert(locked, bridge_transfer_id, hash_lock, time_lock, recipient_address, amount) ==
  IF bridge_transfer_id \in DOMAIN locked THEN locked
  ELSE MapInsert(locked, bridge_transfer_id,
                 LockDetails(bridge_transfer_id, recipient_address, hash_lock, time_lock, amount))

\* lock_bridge_transfer: HashMap::insert under the given id.
lock_bridge_transfer(locked, bridge_transfer_id, hash_lock, time_lock, recipient_address, amount) ==
  MapInsert(locked, bridge_transfer_id,
            LockDetails(bridge_transfer_id, recipient_address, hash_lock, time_lock, amount))

LockBridgeTransfer ==
  /\ \E id \in TransferIds, a \in LockArgs :
       /\ locked_transfers' =
            lock_bridge_transfer(locked_transfers, id, a[1], a[2], a[3], a[4])
       /\ lastCall' = [op |-> "lock", transfer_id |-> id, secret |-> "",
                       result |-> "Ok", args |-> a,
                       replaced |->
                         MapInsertReturn(locked_transfers, id,
                                         LockDetails(id, a[3], a[1], a[2], a[4]))]
  /\ UNCHANGED <<initiated_transfers, generated, accounts, completed, clientVars, monitorVars>>

\* The counterparty is locked for a transfer the initiator holds, under the
\* transfer's id and with its hash_lock, time_lock, recipient and amount.
LockInitiatedTransfer ==
  /\ Running
  /\ \E id \in DOMAIN initiated_transfers :
       LET transfer == initiated_transfers[id]
       IN  /\ locked_transfers' =
                lock_bridge_transfer(locked_transfers, id, transfer.hash_lock,
                                     transfer.time_lock, transfer.recipient_address,
                                     transfer.amount)
           /\ lastCall' =
                [op |-> "lock", transfer_id |-> id, secret |-> "", result |-> "Ok",
                 args |-> <<transfer.hash_lock, transfer.time_lock,
                            transfer.recipient_address, transfer.amount>>,
                 replaced |->
                   MapInsertReturn(locked_transfers, id,
                     LockDetails(id, transfer.recipient_address, transfer.hash_lock,
                                 transfer.time_lock, transfer.amount))]
  /\ UNCHANGED <<initiated_transfers, generated, accounts, completed, clientVars, monitorVars>>

(***************************************************************************)
(* The transaction retry engine (send_transaction) as EthClient calls it.  *)
(***************************************************************************)

\* What one attempt to send may come to: the transaction reaches the chain,
\* or the send fails with one of these errors.
Outcomes == {"sent", "underpriced", "insufficient funds", "connection lost"}

\* A variant of the rule list in which rule1 was not put in the vec.
send_transaction_error_rules_without_rule1 == <<"InsufficentFunds">>

\* send_transaction_error_rules of build_with_provider, in order.
send_transaction_error_rules == <<"UnderPriced", "InsufficentFunds">>

\* The verdict of one rule on one error.
check_rule(rule, error) ==
  IF rule = "UnderPriced" /\ error = "underpriced" THEN "Retryable"
  ELSE IF rule = "InsufficentFunds" /\ error = "insufficient funds" THEN "Fatal"
  ELSE "NoOpinion"

\* The first verdict, in the order of the rules, that is not NoOpinion.
RECURSIVE first_verdict(_, _, _)
first_verdict(rules, i, error) ==
  IF i > Len(rules) THEN "NoOpinion"
  ELSE IF check_rule(rules[i], error) # "NoOpinion" THEN check_rule(rules[i], error)
  ELSE first_verdict(rules, i + 1, error)

\* One attempt of send_transaction with `budget` retries left, after
\* `attempts` earlier ones: "Retry" to attempt again, or the final result.  A
\* transaction that reaches the chain and is reverted fails with an error no
\* rule has an opinion on.
send_attempt(outcome, executes, rules, budget, attempts) ==
  IF outcome = "sent"
  THEN [result |-> IF executes THEN "Success" ELSE "SubmissionError",
        attempts |-> attempts + 1, budget |-> budget]
  ELSE LET verdict == first_verdict(rules, 1, outcome)
       IN  IF verdict = "Retryable"
           THEN IF budget > 0
                THEN [result |-> "Retry", attempts |-> attempts + 1,
                      budget |-> budget - 1]
                ELSE [result |-> "RetryExhausted", attempts |-> attempts + 1,
                      budget |-> budget]
           ELSE IF verdict = "Fatal"
           THEN [result |-> "FatalSubmissionError", attempts |-> attempts + 1,
                 budget |-> budget]
           ELSE [result |-> "SubmissionError", attempts |-> attempts + 1,
                 budget |-> budget]

(***************************************************************************)
(* The on-chain AtomicBridgeInitiator the client submits to.               *)
(***************************************************************************)

\* Ids the client asks about: one more than the chain can hold, so that an
\* id with no transfer always exists.
ChainIds == 1..(MaxChainTransfers + 1)

EthTimeLocks == {1, 2}

ChainInitiate(chain, t, time_lock) ==
  MapInsert(chain, Cardinality(DOMAIN chain) + 1,
            [state |-> "INITIALIZED", expiry |-> t + time_lock])

\* Completion needs an open transfer, the right pre-image, and no expiry yet.
ChainCanComplete(chain, id, t, pre_image_ok) ==
  /\ id \in DOMAIN chain
  /\ chain[id].state = "INITIALIZED"
  /\ pre_image_ok
  /\ t <= chain[id].expiry

\* Refund is valid only strictly after the time lock, without a completion.
ChainCanRefund(chain, id, t) ==
  /\ id \in DOMAIN chain
  /\ chain[id].state = "INITIALIZED"
  /\ t > chain[id].expiry

ChainSetState(chain, id, state) == [chain EXCEPT ![id].state = state]

(***************************************************************************)
(* RLP decoding of the storage word (alloy_rlp), on sequences of bytes.    *)
(***************************************************************************)

DecodeError == [ok |-> FALSE]

DropBytes(buf, n) == SubSeq(buf, n + 1, Len(buf))

\* The length a long-form header states, in len_of_len big-endian bytes.
\* Lengths of two bytes and more are beyond every buffer of the model.
LongLength(bytes) == IF Len(bytes) = 1 THEN bytes[1] ELSE 256

\* Header::decode: whether the item is a list, its payload length, and the
\* buffer after the header.
RlpHeader(buf) ==
  IF Len(buf) = 0 THEN DecodeError
  ELSE LET b == buf[1]
           rest == Tail(buf)
       IN  IF b < 128
           THEN [ok |-> TRUE, list |-> FALSE, payload_length |-> 1, rest |-> buf]
           ELSE IF b <= 183
           THEN IF b - 128 = 1 /\ (Len(rest) = 0 \/ rest[1] < 128) THEN DecodeError
                ELSE IF Len(rest) < b - 128 THEN DecodeError
                ELSE [ok |-> TRUE, list |-> FALSE, payload_length |-> b - 128,
                      rest |-> rest]
           ELSE IF b <= 191 \/ b >= 248
           THEN LET len_of_len == IF b >= 248 THEN b - 247 ELSE b - 183
                IN  IF Len(rest) < len_of_len THEN DecodeError
                    ELSE IF rest[1] = 0 THEN DecodeError
                    ELSE LET len == LongLength(SubSeq(rest, 1, len_of_len))
                             after == DropBytes(rest, len_of_len)
                         IN  IF len < 56 THEN DecodeError
                             ELSE IF Len(after) < len THEN DecodeError
                             ELSE [ok |-> TRUE, list |-> b >= 248,
                                   payload_length |-> len, rest |-> after]
           ELSE IF Len(rest) < b - 192 THEN DecodeError
                ELSE [ok |-> TRUE, list |-> TRUE, payload_length |-> b - 192,
                      rest |-> rest]

\* The payload of a string item, given its header.
StringPayload(h) ==
  IF ~h.ok THEN DecodeError
  ELSE IF h.list THEN DecodeError
  ELSE [ok |-> TRUE, bytes |-> SubSeq(h.rest, 1, h.payload_length),
        rest |-> DropBytes(h.rest, h.payload_length)]

\* Header::decode_bytes(buf, false).
DecodeBytes(buf) == StringPayload(RlpHeader(buf))

\* An unsigned integer of at most `width` bytes: no leading zero byte.
CheckUint(d, width) ==
  IF ~d.ok THEN DecodeError
  ELSE IF Len(d.bytes) > 0 /\ d.bytes[1] = 0 THEN DecodeError
  ELSE IF Len(d.bytes) > width THEN DecodeError
  ELSE d

\* A byte array of exactly `length` bytes.
CheckFixed(d, length) ==
  IF ~d.ok THEN DecodeError
  ELSE IF Len(d.bytes) # length THEN DecodeError
  ELSE d

\* The fields of EthBridgeTransferDetails in their order: amount, originator
\* (decoded as the 20 bytes of the address it wraps), recipient, hash_lock,
\* time_lock, state.
EthBridgeTransferDetailsFields ==
  << <<"uint", EthHashLen>>, <<"fixed", EthAddressLen>>, <<"fixed", EthHashLen>>,
     <<"fixed", EthHashLen>>, <<"uint", EthHashLen>>, <<"uint", 1>> >>

DecodeField(buf, field) ==
  IF field[1] = "uint" THEN CheckUint(DecodeBytes(buf), field[2])
  ELSE CheckFixed(DecodeBytes(buf), field[2])

\* The fields from number i on, decoded one after the other.
RECURSIVE DecodeFields(_, _, _)
RECURSIVE DecodeNext(_, _, _)
DecodeFields(buf, i, decoded) ==
  IF i > Len(EthBridgeTransferDetailsFields)
  THEN [ok |-> TRUE, fields |-> decoded, rest |-> buf]
  ELSE DecodeNext(DecodeField(buf, EthBridgeTransferDetailsFields[i]), i, decoded)

DecodeNext(d, i, decoded) ==
  IF ~d.ok THEN DecodeError
  ELSE DecodeFields(d.rest, i + 1, Append(decoded, d.bytes))

\* The decoded list, when its fields fill the payload exactly.
ListOf(h, f) ==
  IF ~f.ok THEN DecodeError
  ELSE IF Len(h.rest) - Len(f.rest) # h.payload_length THEN DecodeError
  ELSE [ok |-> TRUE, amount |-> f.fields[1], originator |-> f.fields[2],
        recipient |-> f.fields[3], hash_lock |-> f.fields[4],
        time_lock |-> f.fields[5], state |-> f.fields[6]]

ListPayload(h) ==
  IF ~h.ok THEN DecodeError
  ELSE IF ~h.list THEN DecodeError
  ELSE ListOf(h, DecodeFields(h.rest, 1, << >>))

\* EthBridgeTransferDetails::decode (derived): a list of the six fields.
DecodeEthBridgeTransferDetails(buf) == ListPayload(RlpHeader(buf))

\* U256::wrapping_to::<u64>: the low eight bytes of the big-endian value.
wrapping_to_u64(bytes) ==
  IF Len(bytes) <= 8 THEN bytes ELSE DropBytes(bytes, Len(bytes) - 8)

\* A storage word: the given leading bytes, then zero bytes up to 32.
Word(prefix) == prefix \o [i \in 1..(EthHashLen - Len(prefix)) |-> 0]

\* The word of a slot nothing was stored in.
ZeroWord == Word(<< >>)

\* A list header, an amount, a whole originator, and a recipient header.
DeepWord == Word(<<223, 1, 148>> \o [i \in 1..EthAddressLen |-> 7] \o <<160>>)

\* The words get_storage_at may return for a slot that was written.
StorageWords ==
  { ZeroWord, DeepWord, Word(<<1>>), Word(<<128>>), Word(<<129, 5>>),
    Word(<<184, 60>>), Word(<<192>>), Word(<<192, 1>>), Word(<<223, 1, 148>>),
    Word(<<223, 1, 1>>), Word(<<247, 1>>), Word(<<248, 90>>), Word(<<248, 20>>),
    Word(<<249, 1, 0>>) }

(***************************************************************************)
(* EthClient, the BridgeContractInitiator of the Ethereum chain.           *)
(***************************************************************************)

NoClientCall ==
  [op |-> "none", transfer_id |-> 0, pc |-> "idle", result |-> "none",
   submission |-> "none", attempts |-> 0, budget |-> 0, last_error |-> "none",
   time_lock |-> 0, pre_image_ok |-> FALSE, read |-> "none", storage |-> << >>]

\* initiate_bridge_transfer up to the send: the recipient must convert to
\* [u8; 32] (try_into().unwrap()).
eth_initiate_convert(recipient_len) ==
  IF recipient_len # EthHashLen THEN "panic" ELSE "send"

\* complete_bridge_transfer up to the send: vec_to_array(pre_image)? returns
\* the error of a pre-image that is not 32 bytes.
eth_complete_convert(pre_image_len) ==
  IF pre_image_len # EthHashLen THEN "Err" ELSE "send"

\* What initiate_bridge_transfer, complete_bridge_transfer and
\* refund_bridge_transfer return after send_transaction: its result is
\* dropped (let _ =) and Ok(()) returned.
eth_return_after_send(op, submission) == "Ok"

\* The second half of get_bridge_transfer_details: the error of a word that
\* does not decode, or the details built from the decoded fields.
details_of(bridge_transfer_id, eth_details) ==
  IF ~eth_details.ok
  THEN [result |-> "DecodeStorageError", details |-> << >>]
  ELSE [result |-> "Some",
        details |->
          BridgeTransferDetails(bridge_transfer_id, eth_details.originator,
                                eth_details.recipient, eth_details.hash_lock,
                                wrapping_to_u64(eth_details.time_lock),
                                wrapping_to_u64(eth_details.amount))]

\* A variant of get_bridge_transfer_details with the two map_err closures
\* exchanged.
eth_get_bridge_transfer_details_swapped(bridge_transfer_id, read_ok, storage) ==
  IF ~read_ok
  THEN [result |-> "DecodeStorageError", details |-> << >>]
  ELSE IF ~DecodeEthBridgeTransferDetails(storage).ok
  THEN [result |-> "GetMappingStorageError", details |-> << >>]
  ELSE details_of(bridge_transfer_id, DecodeEthBridgeTransferDetails(storage))

\* get_bridge_transfer_details: read the slot, decode the word, build the
\* details.  read_ok says whether get_storage_at returned a word.
eth_get_bridge_transfer_details(bridge_transfer_id, read_ok, storage) ==
  IF ~read_ok
  THEN [result |-> "GetMappingStorageError", details |-> << >>]
  ELSE details_of(bridge_transfer_id, DecodeEthBridgeTransferDetails(storage))

\* MovementClient::abort_bridge_transfer is todo!().
movement_abort_bridge_transfer(bridge_transfer_id) == "panic"

\* A client takes one call at a time (&mut self), and none after a panic.
ClientReady == clientCall.pc # "sending" /\ clientCall.result # "panic"

\* A variant of the calls that hands send_transaction a retry count one
\* larger than self.num_tx_send_retries.
Begin_one_more_retry(op, id, converted, time_lock, pre_image_ok) ==
  [NoClientCall EXCEPT
     !.op = op, !.transfer_id = id,
     !.pc = IF converted = "send" THEN "sending" ELSE "done",
     !.result = IF converted = "send" THEN "none" ELSE converted,
     !.budget = IF converted = "send" THEN num_tx_send_retries + 1 ELSE 0,
     !.time_lock = time_lock, !.pre_image_ok = pre_image_ok]

\* The call made, before its send_transaction: converted arguments, or the
\* early return.
Begin(op, id, converted, time_lock, pre_image_ok) ==
  [NoClientCall EXCEPT
     !.op = op, !.transfer_id = id,
     !.pc = IF converted = "send" THEN "sending" ELSE "done",
     !.result = IF converted = "send" THEN "none" ELSE converted,
     !.budget = IF converted = "send" THEN num_tx_send_retries ELSE 0,
     !.time_lock = time_lock, !.pre_image_ok = pre_image_ok]

EthInitiateBridgeTransfer ==
  /\ ClientReady
  /\ Cardinality(DOMAIN chain_transfers) < MaxChainTransfers
  /\ \E recipient_len \in {EthAddressLen, EthHashLen}, time_lock \in EthTimeLocks :
       clientCall' = Begin("initiate", 0, eth_initiate_convert(recipient_len),
                           time_lock, FALSE)
  /\ UNCHANGED <<chain_transfers, now, contractVars, monitorVars>>

EthCompleteBridgeTransfer ==
  /\ ClientReady
  /\ \E id \in ChainIds, pre_image_len \in {EthAddressLen, EthHashLen},
        pre_image_ok \in BOOLEAN :
       clientCall' = Begin("complete", id, eth_complete_convert(pre_image_len),
                           0, pre_image_ok)
  /\ UNCHANGED <<chain_transfers, now, contractVars, monitorVars>>

EthRefundBridgeTransfer ==
  /\ ClientReady
  /\ \E id \in ChainIds :
       clientCall' = Begin("refund", id, "send", 0, FALSE)
  /\ UNCHANGED <<chain_transfers, now, contractVars, monitorVars>>

\* Whether the transaction of the call in progress executes on the chain.
Executes(call) ==
  IF call.op = "initiate" THEN TRUE
  ELSE IF call.op = "complete"
  THEN ChainCanComplete(chain_transfers, call.transfer_id, now, call.pre_image_ok)
  ELSE ChainCanRefund(chain_transfers, call.transfer_id, now)

\* What the executed transaction of the call does to the chain.
ChainApply(call) ==
  IF call.op = "initiate" THEN ChainInitiate(chain_transfers, now, call.time_lock)
  ELSE IF call.op = "complete"
  THEN ChainSetState(chain_transfers, call.transfer_id, "COMPLETED")
  ELSE ChainSetState(chain_transfers, call.transfer_id, "REFUNDED")

\* What send_transaction sees of one attempt: "none" when the transaction was
\* sent and executed, "reverted" when it was sent and reverted, or the error
\* the send failed with.
AttemptError(outcome, executes) ==
  IF outcome # "sent" THEN outcome
  ELSE IF executes THEN "none" ELSE "reverted"

\* One attempt of the send_transaction the call awaits; after the last one
\* the call returns.
SendAttempt ==
  /\ clientCall.pc = "sending"
  /\ \E outcome \in Outcomes :
       LET sent == send_attempt(outcome, Executes(clientCall),
                                send_transaction_error_rules, clientCall.budget,
                                clientCall.attempts)
       IN  IF sent.result = "Retry"
           THEN /\ clientCall' =
                     [clientCall EXCEPT
                        !.attempts = sent.attempts, !.budget = sent.budget,
                        !.last_error = AttemptError(outcome, Executes(clientCall))]
                /\ UNCHANGED chain_transfers
           ELSE /\ clientCall' =
                     [clientCall EXCEPT
                        !.attempts = sent.attempts, !.budget = sent.budget,
                        !.last_error = AttemptError(outcome, Executes(clientCall)),
                        !.submission = sent.result, !.pc = "done",
                        !.result = eth_return_after_send(clientCall.op, sent.result)]
                /\ chain_transfers' = IF sent.result = "Success"
                                      THEN ChainApply(clientCall)
                                      ELSE chain_transfers
  /\ UNCHANGED <<now, contractVars, monitorVars>>

\* The slot of an id the chain holds no transfer for was never written.
EthGetBridgeTransferDetails ==
  /\ ClientReady
  /\ \E id \in ChainIds, read_ok \in BOOLEAN :
     \E storage \in (IF id \in DOMAIN chain_transfers THEN StorageWords ELSE {ZeroWord}) :
       LET r == eth_get_bridge_transfer_details(id, read_ok, storage)
       IN  clientCall' = [NoClientCall EXCEPT
                            !.op = "get_details", !.transfer_id = id, !.pc = "done",
                            !.result = r.result,
                            !.read = IF read_ok THEN "ok" ELSE "failed",
                            !.storage = IF read_ok THEN storage ELSE << >>]
  /\ UNCHANGED <<chain_transfers, now, contractVars, monitorVars>>

MovementAbortBridgeTransfer ==
  /\ ClientReady
  /\ \E id \in ChainIds :
       clientCall' = [NoClientCall EXCEPT
                        !.op = "abort", !.transfer_id = id, !.pc = "done",
                        !.result = movement_abort_bridge_transfer(id)]
  /\ UNCHANGED <<chain_transfers, now, contractVars, monitorVars>>

\* Time passes on the chain, also while a call awaits its transaction.
Tick ==
  /\ clientCall.result # "panic"
  /\ now < MaxTime
  /\ now' = now + 1
  /\ UNCHANGED <<chain_transfers, clientCall, contractVars, monitorVars>>

(***************************************************************************)
(* Monitoring: the events of BridgeContractInitiatorMonitoring.            *)
(***************************************************************************)

\* The details field of an event that carries none.
NoDetails == [bridge_transfer_id |-> 0, initiator_address |-> "",
              recipient_address |-> "", hash_lock |-> "", time_lock |-> 0,
              amount |-> 0]

\* BridgeContractInitiatorEvent: Initiated carries the details, Completed
\* and Refunded carry an id.
Initiated(details) == [kind |-> "Initiated", details |-> details, id |-> 0]

Completed(id) == [kind |-> "Completed", details |-> NoDetails, id |-> id]

Refunded(id) == [kind |-> "Refunded", details |-> NoDetails, id |-> id]

\* A variant of bridge_transfer_id that returns the id the event carries
\* itself for every kind.
bridge_transfer_id_carried_id(event) == event.id

\* BridgeContractInitiatorEvent::bridge_transfer_id: the match on the kind.
bridge_transfer_id(event) ==
  IF event.kind = "Initiated" THEN event.details.bridge_transfer_id
  ELSE event.id

\* The events a stream may yield.
InitiatorEvents ==
  { Initiated(BridgeTransferDetails(id, a[1], a[2], a[5], a[4], a[3])) :
      id \in TransferIds, a \in InitiateArgs }
  \cup { Completed(id) : id \in TransferIds }
  \cup { Refunded(id) : id \in TransferIds }

\* A consumer polls the next event and resolves it to its transfer id.
PollInitiatorEvent ==
  /\ Len(stream) < MaxEvents
  /\ \E event \in InitiatorEvents :
       stream' = Append(stream, [event |-> event, id |-> bridge_transfer_id(event)])
  /\ UNCHANGED <<contractVars, clientVars>>

Init ==
  /\ initiated_transfers = EmptyMap
  /\ generated = {}
  /\ accounts = EmptyMap
  /\ locked_transfers = EmptyMap
  /\ lastCall = NoCall
  /\ completed = {}
  /\ chain_transfers = EmptyMap
  /\ now = 0
  /\ clientCall = NoClientCall
  /\ stream = << >>

Next == InitiateBridgeTransfer \/ CompleteBridgeTransfer

Spec == Init /\ [][Next]_vars

NextCounterparty == LockBridgeTransfer

SpecCounterparty == Init /\ [][NextCounterparty]_vars

NextClients ==
  \/ EthInitiateBridgeTransfer
  \/ EthCompleteBridgeTransfer
  \/ EthRefundBridgeTransfer
  \/ SendAttempt
  \/ EthGetBridgeTransferDetails
  \/ MovementAbortBridgeTransfer
  \/ Tick

SpecClients == Init /\ [][NextClients]_vars

\* The two operations that write records, side by side: the initiator
\* records transfers and the counterparty is locked for them.
NextContracts == InitiateBridgeTransfer \/ LockInitiatedTransfer

SpecContracts == Init /\ [][NextContracts]_vars

NextMonitoring == PollInitiatorEvent

SpecMonitoring == Init /\ [][NextMonitoring]_vars

\* The call awaits send_transaction, and the runtime keeps polling it: an
\* attempt that can be made is made.
SpecClientsFair == SpecClients /\ WF_vars(SendAttempt)

(***************************************************************************)
(* The claims.  A step of a contract is told by the call it leaves in      *)
(* lastCall, a step of a client by the call it leaves in clientCall.       *)
(***************************************************************************)

CompleteStep == lastCall'.op = "complete"

InitiateStep == lastCall'.op = "initiate"

\* The balance of an address, 0 when the ledger has no entry for it.
BalanceOf(accts, addr) == IF addr \in DOMAIN accts THEN accts[addr] ELSE 0

\* C1: complete_bridge_transfer on a recorded id with a pre-image whose hash
\* is not the record's hash_lock fails with InvalidHashLockPreImage and
\* leaves every balance unchanged.
C1_WrongPreImageRejected ==
  [][(/\ CompleteStep
      /\ lastCall'.transfer_id \in DOMAIN initiated_transfers
      /\ calculate_hash(lastCall'.secret) #
           initiated_transfers[lastCall'.transfer_id].hash_lock)
     => (lastCall'.result = "InvalidHashLockPreImage" /\ accounts' = accounts)]_vars

\* C2: complete_bridge_transfer on an id without a record fails with
\* TransferNotFound, for every pre-image, and leaves the ledger and
\* initiated_transfers unchanged.
C2_AbsentIdNotFound ==
  [][(CompleteStep /\ lastCall'.transfer_id \notin DOMAIN initiated_transfers)
     => (/\ lastCall'.result = "TransferNotFound"
         /\ accounts' = accounts
         /\ initiated_transfers' = initiated_transfers)]_vars

\* A complete_bridge_transfer of an unknown id returned TransferNotFound
\* while records and ledger entries existed.
C2_Witness ==
  /\ lastCall.op = "complete"
  /\ lastCall.transfer_id \notin DOMAIN initiated_transfers
  /\ lastCall.result = "TransferNotFound"
  /\ DOMAIN initiated_transfers # {}
  /\ DOMAIN accounts # {}

\* C3: complete_bridge_transfer on a recorded id with a matching pre-image
\* returns Ok, raises the recipient's balance by exactly the amount (from 0
\* when it had no entry) and changes no other balance.
C3_AmountConservation ==
  [][(/\ CompleteStep
      /\ lastCall'.transfer_id \in DOMAIN initiated_transfers
      /\ calculate_hash(lastCall'.secret) =
           initiated_transfers[lastCall'.transfer_id].hash_lock)
     => LET transfer == initiated_transfers[lastCall'.transfer_id]
            recipient == transfer.recipient_address
        IN  /\ lastCall'.result = "Ok"
            /\ DOMAIN accounts' = DOMAIN accounts \cup {recipient}
            /\ accounts'[recipient] = BalanceOf(accounts, recipient) + transfer.amount
            /\ \A a \in DOMAIN accounts \ {recipient} : accounts'[a] = accounts[a]]_vars

\* C4: after a complete_bridge_transfer has returned Ok for an id, no later
\* complete_bridge_transfer for that id returns Ok or credits again.
C4_CompletionTerminal ==
  [][(CompleteStep /\ lastCall'.transfer_id \in completed)
     => (lastCall'.result # "Ok" /\ accounts' = accounts)]_vars

\* C5: every initiate_bridge_transfer stores its record under an id that had
\* no record, adds exactly that key, and overwrites no record.
C5_Uniqueness ==
  [][InitiateStep
     => (/\ lastCall'.transfer_id \notin DOMAIN initiated_transfers
         /\ DOMAIN initiated_transfers' =
              DOMAIN initiated_transfers \cup {lastCall'.transfer_id}
         /\ Cardinality(DOMAIN initiated_transfers') =
              Cardinality(DOMAIN initiated_transfers) + 1
         /\ \A id \in DOMAIN initiated_transfers :
              initiated_transfers'[id] = initiated_transfers[id])]_vars

\* An initiate_bridge_transfer has just added a record to a map that held
\* others: as many records as ids generated.
C5_Witness ==
  /\ lastCall.op = "initiate"
  /\ Cardinality(DOMAIN initiated_transfers) >= 2
  /\ Cardinality(DOMAIN initiated_transfers) = Cardinality(generated)

\* C6: a record of locked_transfers keeps the hash_lock and the time_lock it
\* was first locked with; lock_bridge_transfer does not overwrite it.
C6_LockWriteOnce ==
  [][\A id \in DOMAIN locked_transfers :
       /\ id \in DOMAIN locked_transfers'
       /\ locked_transfers'[id].hash_lock = locked_transfers[id].hash_lock
       /\ locked_transfers'[id].time_lock = locked_transfers[id].time_lock]_vars

SubmissionFailures == {"FatalSubmissionError", "RetryExhausted", "SubmissionError"}

\* C7: when the send_transaction of initiate_bridge_transfer,
\* complete_bridge_transfer or refund_bridge_transfer ended in a terminal
\* failure, the call does not return Ok (initiate returns
\* InitiateTransferError).
C7_SubmissionFailureSurfaced ==
  (/\ clientCall.pc = "done"
   /\ clientCall.op \in {"initiate", "complete", "refund"}
   /\ clientCall.submission \in SubmissionFailures)
  => (/\ clientCall.result # "Ok"
      /\ clientCall.op = "initiate" => clientCall.result = "InitiateTransferError")

\* The step in which a refund_bridge_transfer or abort_bridge_transfer returns.
RefundOrAbortReturns ==
  /\ clientCall'.op \in {"refund", "abort"}
  /\ clientCall'.pc = "done"
  /\ clientCall' # clientCall

\* C8: refund_bridge_transfer and abort_bridge_transfer return a result, and
\* return Ok only for an open transfer whose time_lock has elapsed (so not
\* before expiry, not after a completion, and not a second time); once the
\* time_lock has elapsed without completion the executed refund returns Ok.
C8_ExpiryGating ==
  [][RefundOrAbortReturns
     => (/\ clientCall'.result # "panic"
         /\ clientCall'.result = "Ok"
              => ChainCanRefund(chain_transfers, clientCall'.transfer_id, now)
         /\ clientCall'.submission = "Success" => clientCall'.result = "Ok")]_vars

\* C9: get_bridge_transfer_details returns None for an id the chain holds no
\* transfer for (its slot read), and Some only for an id it holds one for.
C9_AbsentIsNone ==
  clientCall.op = "get_details"
  => (/\ (clientCall.transfer_id \notin DOMAIN chain_transfers /\ clientCall.read = "ok")
           => clientCall.result = "None"
      /\ clientCall.result = "Some" => clientCall.transfer_id \in DOMAIN chain_transfers)

\* C10: get_bridge_transfer_details does not panic; a failed storage read
\* gives GetMappingStorageError, a word that does not decode gives
\* DecodeStorageError, and Some is returned only when the read succeeded and
\* the word decoded.
C10_FailuresClassified ==
  clientCall.op = "get_details"
  => (/\ clientCall.result \in {"GetMappingStorageError", "DecodeStorageError", "Some"}
      /\ clientCall.read = "failed" => clientCall.result = "GetMappingStorageError"
      /\ (clientCall.read = "ok" /\ ~DecodeEthBridgeTransferDetails(clientCall.storage).ok)
           => clientCall.result = "DecodeStorageError"
      /\ clientCall.result = "Some"
           => (clientCall.read = "ok"
               /\ DecodeEthBridgeTransferDetails(clientCall.storage).ok))

\* The details of a transfer the chain holds were asked for, the slot was
\* read, and the word (a list with an amount and an originator, cut short in
\* the recipient) did not decode.
C10_Witness ==
  /\ clientCall.op = "get_details"
  /\ clientCall.transfer_id \in DOMAIN chain_transfers
  /\ clientCall.read = "ok"
  /\ clientCall.storage = DeepWord
  /\ clientCall.result = "DecodeStorageError"

\* C11: initiate_bridge_transfer with a recipient that is not 32 bytes and
\* complete_bridge_transfer with a pre-image that is not 32 bytes return a
\* typed error (the call ends before any transaction is sent), and neither
\* operation panics.
C11_NoPanicOnMalformedInput ==
  clientCall.op \in {"initiate", "complete"}
  => (/\ clientCall.result # "panic"
      /\ (clientCall.pc = "done" /\ clientCall.attempts = 0)
           => clientCall.result = "Err")

\* The Retryable verdicts the engine has acted on in the call: each one took
\* one retry from the budget.
Retries(call) == num_tx_send_retries - call.budget

\* C13: with the rules [UnderPriced, InsufficentFunds] in order, an
\* underpriced failure is retried (while budget is left), so a call that
\* fails underpriced twice and then succeeds is attempted 3 times, retried 2
\* times and returns success; an insufficient-funds failure ends the call at
\* once with the fatal error and no retry; a failure no rule has an opinion on
\* ends the call at once with the generic terminal error.
C13_RetryClassification ==
  clientCall.attempts > 0
  => (/\ clientCall.last_error = "underpriced"
           => \/ (clientCall.pc = "sending"
                  /\ clientCall.attempts = Retries(clientCall))
              \/ (clientCall.pc = "done" /\ clientCall.budget = 0
                  /\ clientCall.submission = "RetryExhausted")
      /\ clientCall.last_error = "none"
           => (/\ clientCall.pc = "done"
               /\ clientCall.submission = "Success"
               /\ clientCall.attempts = Retries(clientCall) + 1)
      /\ clientCall.last_error = "insufficient funds"
           => (/\ clientCall.pc = "done"
               /\ clientCall.submission = "FatalSubmissionError"
               /\ clientCall.attempts = Retries(clientCall) + 1)
      /\ clientCall.last_error \in {"connection lost", "reverted"}
           => (/\ clientCall.pc = "done"
               /\ clientCall.submission = "SubmissionError"
               /\ clientCall.attempts = Retries(clientCall) + 1))

\* A call failed underpriced twice, succeeded at the third attempt and
\* returned success after exactly 2 retries.
C13_Witness ==
  /\ clientCall.pc = "done"
  /\ clientCall.last_error = "none"
  /\ clientCall.attempts = 3
  /\ Retries(clientCall) = 2
  /\ clientCall.submission = "Success"

\* C14: a wrapped submission is attempted at most num_tx_send_retries + 1
\* times; each retry takes one from the budget, which never goes below 0; the
\* call ends in success or in a terminal submission error, in RetryExhausted
\* after num_tx_send_retries + 1 attempts when it kept failing underpriced;
\* and a call that is sending does end.
C14_TerminatesWithinBudget ==
  /\ [](/\ clientCall.attempts <= num_tx_send_retries + 1
        /\ clientCall.budget >= 0
        /\ (clientCall.pc = "done" /\ clientCall.attempts > 0)
             => clientCall.submission \in {"Success"} \cup SubmissionFailures
        /\ (clientCall.pc = "done" /\ clientCall.last_error = "underpriced")
             => (/\ clientCall.submission = "RetryExhausted"
                 /\ clientCall.attempts = num_tx_send_retries + 1))
  /\ [][(/\ clientCall.pc = "sending"
         /\ clientCall'.pc = "sending"
         /\ clientCall' # clientCall)
        => (/\ clientCall'.budget = clientCall.budget - 1
            /\ clientCall'.attempts = clientCall.attempts + 1)]_vars
  /\ (clientCall.pc = "sending" ~> clientCall.pc = "done")

\* A call kept failing underpriced, used its whole budget and ended in the
\* terminal error after num_tx_send_retries + 1 attempts.
C14_Witness ==
  /\ clientCall.pc = "done"
  /\ clientCall.submission = "RetryExhausted"
  /\ clientCall.budget = 0
  /\ clientCall.attempts = num_tx_send_retries + 1

\* C15: initiate_bridge_transfer(initiator, recipient, amount, time_lock,
\* hash_lock) adds exactly one record, under the fresh id, whose six fields
\* are the id and the arguments as passed, and changes no other record.
C15_InitiateRecord ==
  [][InitiateStep
     => LET id == lastCall'.transfer_id
            a  == lastCall'.args
        IN  /\ id \notin DOMAIN initiated_transfers
            /\ DOMAIN initiated_transfers' = DOMAIN initiated_transfers \cup {id}
            /\ initiated_transfers'[id] =
                 [bridge_transfer_id |-> id, initiator_address |-> a[1],
                  recipient_address |-> a[2], amount |-> a[3],
                  time_lock |-> a[4], hash_lock |-> a[5]]
            /\ \A other \in DOMAIN initiated_transfers :
                 initiated_transfers'[other] = initiated_transfers[other]]_vars

\* An initiate_bridge_transfer(bob, alice, u64::MAX, 10, hash2) has just
\* stored its record next to an earlier one.
C15_Witness ==
  /\ lastCall.op = "initiate"
  /\ lastCall.args = <<"bob", "alice", MaxAmount, 10, "hash2">>
  /\ lastCall.transfer_id \in DOMAIN initiated_transfers
  /\ initiated_transfers[lastCall.transfer_id].initiator_address = "bob"
  /\ initiated_transfers[lastCall.transfer_id].amount = MaxAmount
  /\ Cardinality(DOMAIN initiated_transfers) >= 2

LockStep == lastCall'.op = "lock"

\* The record lock_bridge_transfer is to store for the arguments
\* <<hash_lock, time_lock, recipient, amount>> under id.
LockRecord(id, a) ==
  [bridge_transfer_id |-> id, hash_lock |-> a[1], time_lock |-> a[2],
   recipient_address |-> a[3], amount |-> a[4]]

\* C16: lock_bridge_transfer(id, hash_lock, time_lock, recipient, amount)
\* makes locked_transfers[id] the LockDetails of exactly these arguments and
\* leaves the record of every other id as it was, adding no other key.
C16_LockRecord ==
  [][LockStep
     => LET id == lastCall'.transfer_id
        IN  /\ DOMAIN locked_transfers' = DOMAIN locked_transfers \cup {id}
            /\ locked_transfers'[id] = LockRecord(id, lastCall'.args)
            /\ \A other \in DOMAIN locked_transfers \ {id} :
                 locked_transfers'[other] = locked_transfers[other]]_vars

\* A lock_bridge_transfer(id, hash2, 100, alice, u64::MAX) has just stored
\* its record while another id held a record.
C16_Witness ==
  /\ lastCall.op = "lock"
  /\ lastCall.args = <<"hash2", 100, "alice", MaxAmount>>
  /\ lastCall.transfer_id \in DOMAIN locked_transfers
  /\ locked_transfers[lastCall.transfer_id].recipient_address = "alice"
  /\ locked_transfers[lastCall.transfer_id].time_lock = 100
  /\ Cardinality(DOMAIN locked_transfers) >= 2

\* C17: a lock on an id that has a record replaces it: the record becomes
\* the one of the new arguments and the number of records stays the same
\* (last write wins); a lock with the arguments the record was made from
\* leaves locked_transfers as it was, and so does repeating any lock.
C17_IdempotentReplace ==
  /\ [][(LockStep /\ lastCall'.transfer_id \in DOMAIN locked_transfers)
        => LET id == lastCall'.transfer_id
               d2 == LockRecord(id, lastCall'.args)
           IN  /\ locked_transfers'[id] = d2
               /\ Cardinality(DOMAIN locked_transfers') =
                    Cardinality(DOMAIN locked_transfers)
               /\ locked_transfers[id] = d2 => locked_transfers' = locked_transfers]_vars
  /\ [](\A id \in TransferIds, a \in LockArgs :
          LET once == lock_bridge_transfer(locked_transfers, id, a[1], a[2], a[3], a[4])
          IN  lock_bridge_transfer(once, id, a[1], a[2], a[3], a[4]) = once)

\* A lock has just replaced a different record of the same id, and the record
\* is the one of the later arguments.
C17_Witness ==
  /\ lastCall.op = "lock"
  /\ lastCall.replaced = "other"
  /\ locked_transfers[lastCall.transfer_id] =
       LockRecord(lastCall.transfer_id, lastCall.args)

\* C18: a record of initiated_transfers, once created, is present and equal
\* field for field after every later initiate_bridge_transfer and every later
\* complete_bridge_transfer, whether it returned Ok, an error, or panicked.
C18_RecordsRetained ==
  [][\A id \in DOMAIN initiated_transfers :
       /\ id \in DOMAIN initiated_transfers'
       /\ initiated_transfers'[id] = initiated_transfers[id]]_vars

\* A transfer has been completed with Ok, another id was initiated after it,
\* and the record of the completed transfer is still there under its id.
C18_Witness ==
  /\ lastCall.op = "initiate"
  /\ completed # {}
  /\ \A id \in completed :
       /\ id \in DOMAIN initiated_transfers
       /\ initiated_transfers[id].bridge_transfer_id = id
       /\ id # lastCall.transfer_id

\* C19: a complete_bridge_transfer returns Ok (a Completed event) only for an
\* id that an earlier initiate_bridge_transfer created (its Initiated event):
\* the id was generated and recorded before the completing call.
C19_InitiatedBeforeCompleted ==
  /\ [][(CompleteStep /\ lastCall'.result = "Ok")
        => (/\ lastCall'.transfer_id \in generated
            /\ lastCall'.transfer_id \in DOMAIN initiated_transfers)]_vars
  /\ [](completed \subseteq generated)

\* Two transfers have been initiated, and a complete_bridge_transfer has just
\* returned Ok for one of them, the only one completed so far.
C19_Witness ==
  /\ lastCall.op = "complete"
  /\ lastCall.result = "Ok"
  /\ lastCall.transfer_id \in generated
  /\ completed = {lastCall.transfer_id}
  /\ Cardinality(generated) = 2

\* The second of two complete_bridge_transfer calls made one after the other
\* in one build; it is not made when the first panicked.
CompleteSecond(r1, first, second, secret, overflow_checks) ==
  IF r1.result = "panic"
  THEN [results |-> (first :> "panic") @@ (second :> "not run"),
        accounts |-> r1.accounts]
  ELSE [results |-> (first :> r1.result) @@
                    (second :> complete_bridge_transfer(r1.transfers, r1.accounts,
                                 second, secret, overflow_checks).result),
        accounts |-> complete_bridge_transfer(r1.transfers, r1.accounts, second,
                                              secret, overflow_checks).accounts]

\* complete_bridge_transfer(first) then complete_bridge_transfer(second): the
\* result of each id and the ledger left.
CompleteBoth(transfers, accts, first, second, secret, overflow_checks) ==
  CompleteSecond(complete_bridge_transfer(transfers, accts, first, secret,
                                          overflow_checks),
                 first, second, secret, overflow_checks)

\* C20: for distinct ids, completing id1 then id2 gives each id the same
\* result and leaves the same ledger as completing id2 then id1 (also with
\* one recipient for both), and locking id1 then id2 leaves the same
\* locked_transfers as locking id2 then id1.
C20_DistinctIdsCommute ==
  \A id1 \in TransferIds, id2 \in TransferIds :
    id1 # id2
    => (/\ \A secret \in Secrets, overflow_checks \in BOOLEAN :
             CompleteBoth(initiated_transfers, accounts, id1, id2, secret,
                          overflow_checks)
             = CompleteBoth(initiated_transfers, accounts, id2, id1, secret,
                            overflow_checks)
        /\ \A a1 \in LockArgs, a2 \in LockArgs :
             lock_bridge_transfer(
               lock_bridge_transfer(locked_transfers, id1, a1[1], a1[2], a1[3], a1[4]),
               id2, a2[1], a2[2], a2[3], a2[4])
             = lock_bridge_transfer(
                 lock_bridge_transfer(locked_transfers, id2, a2[1], a2[2], a2[3], a2[4]),
                 id1, a1[1], a1[2], a1[3], a1[4]))

\* C21: bridge_transfer_id() resolves every initiator event to one transfer
\* id: the bridge_transfer_id of the details for Initiated(details), the
\* carried id for Completed(id) and for Refunded(id).
C21_EventResolvesToId ==
  \A i \in DOMAIN stream :
    LET event == stream[i].event
    IN  /\ event.kind = "Initiated"
             => stream[i].id = event.details.bridge_transfer_id
        /\ event.kind \in {"Completed", "Refunded"} => stream[i].id = event.id
        /\ stream[i].id \in TransferIds

\* The stream yielded the Initiated event of a transfer and then the Refunded
\* event of the same transfer, and both resolved to its id.
C21_Witness ==
  /\ Len(stream) = 2
  /\ stream[1].event.kind = "Initiated"
  /\ stream[2].event.kind = "Refunded"
  /\ stream[1].id = stream[2].id
  /\ stream[1].id \in TransferIds

\* C22: in every reachable state of the two reference contracts, every
\* record of initiated_transfers and every record of locked_transfers
\* carries as bridge_transfer_id the key it is stored under.
C22_KeyRecordConsistency ==
  /\ \A key \in DOMAIN initiated_transfers :
       initiated_transfers[key].bridge_transfer_id = key
  /\ \A key \in DOMAIN locked_transfers :
       locked_transfers[key].bridge_transfer_id = key

\* Two transfers are recorded by the initiator and both are locked on the
\* counterparty.
C22_Witness ==
  /\ Cardinality(DOMAIN initiated_transfers) = 2
  /\ DOMAIN locked_transfers = DOMAIN initiated_transfers
  /\ \A key \in DOMAIN locked_transfers :
       locked_transfers[key].bridge_transfer_id = key

\* The sum of the balances of the addresses in `addrs`.
RECURSIVE SumOver(_, _)
SumOver(accts, addrs) ==
  IF addrs = {} THEN 0
  ELSE LET addr == CHOOSE a \in addrs : TRUE
       IN  accts[addr] + SumOver(accts, addrs \ {addr})

\* The sum of all balances of the ledger.
SumBalances(accts) == SumOver(accts, DOMAIN accts)

\* C23: initiate_bridge_transfer leaves the ledger unchanged; no operation
\* of the reference contracts removes an entry or lowers a balance; a
\* complete_bridge_transfer that returns Ok without overflow raises the sum of
\* all balances by the amount of the transfer, and one that does not return
\* Ok leaves the sum as it was.
C23_LedgerMonotonic ==
  [][/\ InitiateStep => accounts' = accounts
     /\ \A addr \in DOMAIN accounts :
          /\ addr \in DOMAIN accounts'
          /\ accounts'[addr] >= accounts[addr]
     /\ (/\ CompleteStep
         /\ lastCall'.result = "Ok"
         /\ ~overflows(BalanceOf(accounts,
                         initiated_transfers[lastCall'.transfer_id].recipient_address),
                       initiated_transfers[lastCall'.transfer_id].amount))
          => SumBalances(accounts') =
               SumBalances(accounts) + initiated_transfers[lastCall'.transfer_id].amount
     /\ (CompleteStep /\ lastCall'.result # "Ok")
          => SumBalances(accounts') = SumBalances(accounts)]_vars

\* C24: a complete_bridge_transfer that returns Ok never leaves the
\* recipient with a lower balance than before the call, and when balance +
\* amount is above the maximum of the type the balance is not left at the sum
\* modulo 2^64.
C24_NoWraparound ==
  [][(CompleteStep /\ lastCall'.result = "Ok")
     => LET transfer == initiated_transfers[lastCall'.transfer_id]
            before == BalanceOf(accounts, transfer.recipient_address)
        IN  /\ accounts'[transfer.recipient_address] >= before
            /\ overflows(before, transfer.amount)
                 => accounts'[transfer.recipient_address] #
                      (before + transfer.amount) % AmountModulus]_vars

\* The low eight bytes of a big-endian value: the value modulo 2^64.
Low64(bytes) ==
  IF Len(bytes) <= 8 THEN bytes ELSE SubSeq(bytes, Len(bytes) - 7, Len(bytes))

\* C25: for a transfer the chain holds, whose slot was read,
\* get_bridge_transfer_details reports no error and returns details whose
\* amount and time_lock are the decoded on-chain values modulo 2^64 (the
\* values themselves when they are below 2^64).
C25_WidthReduction ==
  (/\ clientCall.op = "get_details"
   /\ clientCall.transfer_id \in DOMAIN chain_transfers
   /\ clientCall.read = "ok")
  => (/\ clientCall.result = "Some"
      /\ eth_get_bridge_transfer_details(clientCall.transfer_id, TRUE,
                                         clientCall.storage).details.amount
           = Low64(DecodeEthBridgeTransferDetails(clientCall.storage).amount)
      /\ eth_get_bridge_transfer_details(clientCall.transfer_id, TRUE,
                                         clientCall.storage).details.time_lock
           = Low64(DecodeEthBridgeTransferDetails(clientCall.storage).time_lock))

====
